---- MODULE Spec2Model ----
(***************************************************************************)
(* Model of the practice FastAPI service of python-lesson:                 *)
(*   - the in-memory user repository and the user service built on it      *)
(*     (src/practice/fastapi/repositories, services), every `await` of the *)
(*     service being a point where another caller may run;                 *)
(*   - the request pipeline: RequestContextMiddleware.dispatch, the        *)
(*     trace_id ContextVar and the exception handlers                      *)
(*     (src/practice/fastapi/middleware, configs, exceptions).             *)
(* Strings are sequences of one-character strings.  Python's None is the   *)
(* value None below; Optional[UserEntity] is a sequence of length 0 or 1.  *)
(***************************************************************************)
EXTENDS Integers, Sequences, FiniteSets, TLC

VARIABLES
    storage,      \* InMemoryUserRepo.storage: the dict, in insertion order
    issued,       \* number of ids generate_id() has handed out
    clock,        \* the clock read by utcnow() / perf_counter()
    pc,           \* per service caller: where it stands in its call
    call,         \* per service caller: the operation and its arguments
    user,         \* per service caller: the local `user` (create, delete)
    result,       \* per service caller: what the call returned or raised
    trace_id_ctx, \* the ContextVar: one value per execution context
    rpc,          \* per request: where it stands in the pipeline
    request,      \* per request: method, path and inbound x-trace-id
    local,        \* per request: dispatch's locals trace_id, start_time
    response,     \* per request: the response on its way out
    exception,    \* per request: the exception call_next raised
    request_log   \* per request: entries written by "request-logger"

pvars == <<trace_id_ctx, rpc, request, local, response, exception, request_log>>
vars == <<storage, issued, clock, pc, call, user, result,
          trace_id_ctx, rpc, request, local, response, exception, request_log>>

----------------------------------------------------------------------------
(* Bounds of the model *)

MaxIds == 2      \* generate_id() is called at most this many times
MaxClock == 1    \* the clock advances at most to this value

(* The concurrent callers / requests: A and B *)
Tasks == {"A", "B"}

----------------------------------------------------------------------------
(* Strings *)

None == <<"None">>

\* str.lower() on one character
LowerChar(c) ==
    CASE c = "A" -> "a"
      [] c = "B" -> "b"
      [] c = "J" -> "j"
      [] c = "O" -> "o"
      [] OTHER -> c

\* str.lower()
Lower(s) == [i \in 1..Len(s) |-> LowerChar(s[i])]

IsSpace(c) == c = " "

RECURSIVE LStrip(_)
LStrip(s) ==
    IF s # <<>> /\ IsSpace(Head(s)) THEN LStrip(Tail(s)) ELSE s

RECURSIVE RStrip(_)
RStrip(s) ==
    IF s # <<>> /\ IsSpace(s[Len(s)]) THEN RStrip(SubSeq(s, 1, Len(s) - 1)) ELSE s

\* str.strip()
Strip(s) == RStrip(LStrip(s))

\* `x in s` for a one-character x
Contains(s, c) == \E i \in 1..Len(s) : s[i] = c

\* Python truthiness of an Optional[str]: `not s`
Falsy(s) == s = None \/ s = <<>>

----------------------------------------------------------------------------
(* Inputs *)

Names == {None, <<" ">>, <<" ", "J", "o", " ">>}

Emails == {None, <<>>, <<"a">>, <<"a", "@">>, <<"A", "@">>,
           <<" ", "a", "@">>, <<"b", "@">>}

DigitChars == <<"1", "2", "3", "4", "5", "6", "7", "8", "9">>

\* utils.id_generator.generate_id: the n-th id handed out; ids are non-empty
\* and no two calls return the same id
generate_id(n) == <<"u", DigitChars[n]>>

\* ids a caller may pass: the empty id, an id never issued, every issued id
UserIds == {<<>>, <<"z">>} \cup {generate_id(n) : n \in 1..issued}

----------------------------------------------------------------------------
(* entities/user_entity.py *)

\* UserEntity(id, name, email): created_at is None, so __post_init__ sets it
UserEntity(id, name, email, now) ==
    [id |-> id, name |-> name, email |-> email, created_at |-> now]

----------------------------------------------------------------------------
(* repositories/memory_user_repo.py: operations on the dict `storage`,     *)
(* kept as the sequence of its values in insertion order                   *)

Index(st, user_id) == {i \in 1..Len(st) : st[i].id = user_id}

\* a save that also copies the new entity's name into every stored entity
save_Overwrite(st, u) ==
    Append([i \in 1..Len(st) |-> [st[i] EXCEPT !.name = u.name]], u)

\* a save that replaces the whole map by the new entity
save_Replace(st, u) == <<u>>

\* self.storage[user.id] = user: overwrite in place, or insert at the end
save(st, u) ==
    IF Index(st, u.id) # {}
    THEN [i \in 1..Len(st) |-> IF st[i].id = u.id THEN u ELSE st[i]]
    ELSE Append(st, u)

\* a lookup that ignores the key: the first stored entity, if any
find_First(st, user_id) == IF st = <<>> THEN <<>> ELSE <<st[1]>>

\* self.storage.get(user_id)
find(st, user_id) ==
    IF Index(st, user_id) = {} THEN <<>>
    ELSE <<st[CHOOSE i \in Index(st, user_id) : TRUE]>>

\* the values in reverse insertion order
list_Reversed(st) == [i \in 1..Len(st) |-> st[Len(st) + 1 - i]]

\* list(self.storage.values())
list(st) == st

\* a delete that removes nothing
delete_Keep(st, user_id) == st

\* a delete that empties the map
delete_All(st, user_id) == <<>>

\* self.storage.pop(user_id, None)
delete(st, user_id) == SelectSeq(st, LAMBDA u : u.id # user_id)

\* find_by_email: the first stored user whose lower-cased email matches
find_by_email(st, email) ==
    LET hits == {i \in 1..Len(st) : Lower(st[i].email) = Lower(email)}
    IN  IF hits = {} THEN <<>>
        ELSE <<st[CHOOSE i \in hits : \A j \in hits : i <= j]>>

----------------------------------------------------------------------------
(* services/user_service.py *)

\* a repository whose map belongs to the instance: the instance built for a
\* call starts with an empty map
RepoStorage_PerInstance(t) == <<>>

\* self.storage of the InMemoryUserRepo instance get_user_service builds for
\* the call of t: the class attribute, the same dict for every instance
RepoStorage(t) == storage

NoCall == [op |-> "none", name |-> None, email |-> None, user_id |-> <<>>]
NoResult == [kind |-> "none", value |-> <<>>]
Returned(v) == [kind |-> "ok", value |-> v]
Raised(type) == [kind |-> type, value |-> <<>>]

\* the email check without its "@" test
InvalidEmail_NoAtTest(email) == Falsy(email)

\* `not email or "@" not in email`
InvalidEmail(email) == Falsy(email) \/ ~Contains(email, "@")

\* any(user.email.lower() == email.lower() for user in existing_users)
DuplicateEmail(existing_users, email) ==
    \E i \in 1..Len(existing_users) :
        Lower(existing_users[i].email) = Lower(email)

\* NewUser with the email lower-cased but not stripped
NewUser_Unstripped(id, name, email, now) ==
    UserEntity(id, Strip(name), Lower(email), now)

\* UserEntity(id=generate_id(), name=name.strip(), email=email.lower().strip())
NewUser(id, name, email, now) ==
    UserEntity(id, Strip(name), Strip(Lower(email)), now)

\* create, up to its second await: the email check, `await self.repo.list()`,
\* the duplicate scan and the construction of the entity.  generate_id() is
\* evaluated before name.strip(), which fails on a name that is None.
CreateScan(t, name, email) ==
    /\ pc[t] = "idle"
    /\ call' = [call EXCEPT ![t] =
                  [op |-> "create", name |-> name, email |-> email, user_id |-> <<>>]]
    /\ IF InvalidEmail(email)
       THEN /\ result' = [result EXCEPT ![t] = Raised("ValidationError")]
            /\ pc' = [pc EXCEPT ![t] = "returned"]
            /\ UNCHANGED <<issued, user>>
       ELSE IF DuplicateEmail(list(RepoStorage(t)), email)
       THEN /\ result' = [result EXCEPT ![t] = Raised("ConflictError")]
            /\ pc' = [pc EXCEPT ![t] = "returned"]
            /\ UNCHANGED <<issued, user>>
       ELSE /\ issued < MaxIds
            /\ issued' = issued + 1
            /\ IF name = None
               THEN /\ result' = [result EXCEPT ![t] = Raised("AttributeError")]
                    /\ pc' = [pc EXCEPT ![t] = "returned"]
                    /\ UNCHANGED user
               ELSE /\ user' = [user EXCEPT ![t] =
                          <<NewUser(generate_id(issued + 1), name, email, clock)>>]
                    /\ pc' = [pc EXCEPT ![t] = "create_save"]
                    /\ UNCHANGED result
    /\ UNCHANGED <<storage, clock>>
    /\ UNCHANGED pvars

\* create, from `await self.repo.save(user)` to its return
CreateSave(t) ==
    /\ pc[t] = "create_save"
    /\ storage' = save(RepoStorage(t), user[t][1])
    /\ result' = [result EXCEPT ![t] = Returned(user[t])]
    /\ pc' = [pc EXCEPT ![t] = "returned"]
    /\ UNCHANGED <<issued, clock, call, user>>
    /\ UNCHANGED pvars

\* get without its check of the id
get_NoIdCheck(st, user_id) ==
    IF find(st, user_id) = <<>> THEN Raised("NotFoundError")
    ELSE Returned(find(st, user_id))

\* get: what it returns or raises on the storage st
get(st, user_id) ==
    IF user_id = <<>> THEN Raised("ValidationError")
    ELSE IF find(st, user_id) = <<>> THEN Raised("NotFoundError")
    ELSE Returned(find(st, user_id))

\* get: one call, from the id check through `await self.repo.find`
Get(t, user_id) ==
    /\ pc[t] = "idle"
    /\ call' = [call EXCEPT ![t] =
                  [op |-> "get", name |-> None, email |-> None, user_id |-> user_id]]
    /\ result' = [result EXCEPT ![t] = get(RepoStorage(t), user_id)]
    /\ pc' = [pc EXCEPT ![t] = "returned"]
    /\ UNCHANGED <<storage, issued, clock, user>>
    /\ UNCHANGED pvars

\* list
List(t) ==
    /\ pc[t] = "idle"
    /\ call' = [call EXCEPT ![t] =
                  [op |-> "list", name |-> None, email |-> None, user_id |-> <<>>]]
    /\ result' = [result EXCEPT ![t] = Returned(list(RepoStorage(t)))]
    /\ pc' = [pc EXCEPT ![t] = "returned"]
    /\ UNCHANGED <<storage, issued, clock, user>>
    /\ UNCHANGED pvars

\* delete, up to its second await: the id check and `await self.repo.find`
DeleteFind(t, user_id) ==
    /\ pc[t] = "idle"
    /\ call' = [call EXCEPT ![t] =
                  [op |-> "delete", name |-> None, email |-> None, user_id |-> user_id]]
    /\ IF user_id = <<>>
       THEN /\ result' = [result EXCEPT ![t] = Raised("ValidationError")]
            /\ pc' = [pc EXCEPT ![t] = "returned"]
            /\ UNCHANGED user
       ELSE IF find(RepoStorage(t), user_id) = <<>>
       THEN /\ result' = [result EXCEPT ![t] = Raised("NotFoundError")]
            /\ pc' = [pc EXCEPT ![t] = "returned"]
            /\ UNCHANGED user
       ELSE /\ user' = [user EXCEPT ![t] = find(RepoStorage(t), user_id)]
            /\ pc' = [pc EXCEPT ![t] = "delete_pop"]
            /\ UNCHANGED result
    /\ UNCHANGED <<storage, issued, clock>>
    /\ UNCHANGED pvars

\* delete, from `await self.repo.delete(user_id)` to its return
DeletePop(t) ==
    /\ pc[t] = "delete_pop"
    /\ storage' = delete(RepoStorage(t), call[t].user_id)
    /\ result' = [result EXCEPT ![t] = Returned(<<>>)]
    /\ pc' = [pc EXCEPT ![t] = "returned"]
    /\ UNCHANGED <<issued, clock, call, user>>
    /\ UNCHANGED pvars

\* a repository mutation cut short: the entity stored without its email
Mutation_Partial(st, c, u) ==
    IF c.op = "create" THEN Append(st, [u[1] EXCEPT !.email = <<>>]) ELSE st

\* the one repository mutation of the call c: create's repo.save(user),
\* delete's repo.delete(user_id)
Mutation(st, c, u) ==
    IF c.op = "create" THEN save(st, u[1]) ELSE delete(st, c.user_id)

\* the calls that reach their first await: a create whose email passed the
\* check (at `await self.repo.list()`), a delete whose id is not empty (at
\* `await self.repo.find(user_id)`)
CancellableCalls ==
    {[op |-> "create", name |-> name, email |-> email, user_id |-> <<>>] :
        name \in Names, email \in {e \in Emails : ~InvalidEmail(e)}}
    \cup {[op |-> "delete", name |-> None, email |-> None, user_id |-> user_id] :
            user_id \in UserIds \ {<<>>}}

\* the host cancels the call c of t at its first await: CancelledError is
\* raised there, before the repository has been read
CancelFirstAwait(t, c) ==
    /\ pc[t] = "idle"
    /\ c \in CancellableCalls
    /\ call' = [call EXCEPT ![t] = c]
    /\ result' = [result EXCEPT ![t] = Raised("CancelledError")]
    /\ pc' = [pc EXCEPT ![t] = "returned"]
    /\ UNCHANGED <<storage, issued, clock, user>>
    /\ UNCHANGED pvars

\* the host cancels the call of t at its second await (`await
\* self.repo.save(user)`, `await self.repo.delete(user_id)`): CancelledError
\* is raised there, before the repository coroutine has run or after it has
\* run to its end
CancelSecondAwait(t, ran) ==
    /\ pc[t] \in {"create_save", "delete_pop"}
    /\ storage' = IF ran THEN Mutation(RepoStorage(t), call[t], user[t]) ELSE storage
    /\ result' = [result EXCEPT ![t] = Raised("CancelledError")]
    /\ pc' = [pc EXCEPT ![t] = "returned"]
    /\ UNCHANGED <<issued, clock, call, user>>
    /\ UNCHANGED pvars

\* the caller takes the result; the call's locals are gone
Return(t) ==
    /\ pc[t] = "returned"
    /\ pc' = [pc EXCEPT ![t] = "idle"]
    /\ call' = [call EXCEPT ![t] = NoCall]
    /\ user' = [user EXCEPT ![t] = <<>>]
    /\ result' = [result EXCEPT ![t] = NoResult]
    /\ UNCHANGED <<storage, issued, clock>>
    /\ UNCHANGED pvars

\* time passes
Tick ==
    /\ clock < MaxClock
    /\ clock' = clock + 1
    /\ UNCHANGED <<storage, issued, pc, call, user, result>>
    /\ UNCHANGED pvars

----------------------------------------------------------------------------
(* configs/context.py: the ContextVar holds one value per execution        *)
(* context.  A request t runs dispatch in its context <<t, "outer">>; the  *)
(* task call_next starts for the rest of the application runs in a copy,   *)
(* <<t, "inner">>.                                                         *)

Contexts == Tasks \X {"outer", "inner"}

\* ContextVar("trace_id", default="undefined")
Undefined == <<"u", "n", "d", "e", "f">>

\* a trace id kept in one variable shared by every context
set_trace_id_global(ctx, c, trace_id) == [x \in DOMAIN ctx |-> trace_id]

\* trace_id_ctx.set(trace_id), run in context c
set_trace_id(ctx, c, trace_id) == [ctx EXCEPT ![c] = trace_id]

\* trace_id_ctx.get(), run in context c
get_trace_id(ctx, c) == ctx[c]

\* a task started with an empty context: the variable at its default
copy_context_Fresh(ctx, t) == [ctx EXCEPT ![<<t, "inner">>] = Undefined]

\* the task started by call_next copies the context of the task starting it
copy_context(ctx, t) == [ctx EXCEPT ![<<t, "inner">>] = ctx[<<t, "outer">>]]

----------------------------------------------------------------------------
(* exceptions/custom_exceptions.py: a message built from pieces is the     *)
(* sequence of its pieces                                                  *)

\* a dict: the sequence of its items; {} is the empty sequence
EmptyDict == <<>>

\* AppException.__init__ as the class `type` runs it: `details or {}`
AppException(type, message, status_code, details) ==
    [type |-> type, message |-> message, status_code |-> status_code,
     details |-> IF details = None \/ details = EmptyDict THEN EmptyDict ELSE details]

\* status_code: int = 500
DefaultStatus == 500

\* AppException(message, details=details): the base kind, status defaulted
BaseError(message, details) ==
    AppException("AppException", message, DefaultStatus, details)

NotFoundError(resource, identifier, details) ==
    AppException("NotFoundError",
                 <<resource, " with id '", identifier, "' not found">>, 404, details)

\* `if field:` is false for None and for "": both are the field "" here
ValidationError(message, field, details) ==
    AppException("ValidationError",
                 IF field # ""
                 THEN <<"Validation error in field '", field, "': ", message>>
                 ELSE <<message>>,
                 422, details)

\* a ConflictError built without its status_code=409
ConflictError_NoStatus(message, details) ==
    AppException("ConflictError", message, DefaultStatus, details)

ConflictError(message, details) ==
    AppException("ConflictError", message, 409, details)

UnauthorizedError(message, details) ==
    AppException("UnauthorizedError", message, 401, details)

ForbiddenError(message, details) ==
    AppException("ForbiddenError", message, 403, details)

\* arguments of the constructors
Messages == {"", "m"}
Fields == {"", "email"}
Details == {None, EmptyDict, <<"reason: x">>}

\* every domain error the constructors build from these arguments
DomainErrorValues ==
    {BaseError(<<m>>, d) : m \in Messages, d \in Details}
    \cup {NotFoundError("User", i, d) : i \in {"u1", "z"}, d \in Details}
    \cup UNION {{ValidationError(m, f, d) : m \in Messages, f \in Fields} : d \in Details}
    \cup {ConflictError(<<m>>, d) : m \in Messages, d \in Details}
    \cup {UnauthorizedError(<<m>>, d) : m \in Messages, d \in Details}
    \cup {ForbiddenError(<<m>>, d) : m \in Messages, d \in Details}

\* `raise exc`: a caller is handed the domain error exc
Raise(t, exc) ==
    /\ pc[t] = "idle"
    /\ call' = [call EXCEPT ![t] =
                  [op |-> "raise", name |-> None, email |-> None, user_id |-> <<>>]]
    /\ result' = [result EXCEPT ![t] = [kind |-> exc.type, value |-> <<exc>>]]
    /\ pc' = [pc EXCEPT ![t] = "returned"]
    /\ UNCHANGED <<storage, issued, clock, user>>
    /\ UNCHANGED pvars

----------------------------------------------------------------------------
(* apis/routes, exceptions/handlers.py: what the application below the     *)
(* middleware does with a request                                          *)

Requests ==
    { [method |-> "POST", path |-> "/users/"],
      [method |-> "GET", path |-> "/users/u1"],
      [method |-> "GET", path |-> "/health"] }

\* values of the inbound x-trace-id header: absent, empty, "t1"
TraceHeaders == {None, <<>>, <<"t", "1">>}

Endpoint(method, path) ==
    CASE method = "POST" /\ path = "/users/" -> "create_user"
      [] method = "GET" /\ path = "/users/u1" -> "get_user"
      [] OTHER -> "health"

Endpoints == {"create_user", "get_user", "health"}

\* the status of the endpoint's own response
SuccessStatus(endpoint) == IF endpoint = "create_user" THEN 201 ELSE 200

\* the domain errors the service raises below each endpoint
DomainErrors(endpoint) ==
    CASE endpoint = "create_user" ->
           { ValidationError("Invalid email format", "email", None),
             ConflictError(<<"User with email '", "a@", "' already exists">>, None) }
      [] endpoint = "get_user" -> { NotFoundError("User", "u1", None) }
      [] OTHER -> {}

\* exceptions that are neither domain errors nor validation errors
Exceptions ==
    { [type |-> "RuntimeError", message |-> <<"boom">>],
      [type |-> "KeyError", message |-> <<"u1">>] }

NoException == [type |-> "", message |-> <<>>]

\* how the handling of a request below the middleware can end: the endpoint
\* returns, a domain error is raised, the body fails request validation, or
\* anything else is raised
Outcomes(endpoint) ==
    {[kind |-> "ok"]}
    \cup {[kind |-> "AppException", exc |-> e] : e \in DomainErrors(endpoint)}
    \cup (IF endpoint = "create_user" THEN {[kind |-> "RequestValidationError"]} ELSE {})
    \cup (IF endpoint # "health"
          THEN {[kind |-> "Exception", exc |-> e] : e \in Exceptions} ELSE {})

NoHeaders == [h \in {} |-> <<>>]

JSONResponse(status_code, body) ==
    [status_code |-> status_code, body |-> body, headers |-> NoHeaders]

\* a success body whose trace_id is not read from the context
SuccessBody_Default(endpoint, trace_id) == [data |-> endpoint, trace_id |-> Undefined]

\* the body of an endpoint's own response (UserResponse, the health
\* document): its data and trace_id=get_trace_id()
SuccessBody(endpoint, trace_id) == [data |-> endpoint, trace_id |-> trace_id]

\* a translator that answers a domain error like any other exception
app_exception_handler_Generic(exc, trace_id) ==
    JSONResponse(500,
                 [error |-> [message |-> <<"Internal server error">>,
                             type |-> "InternalServerError",
                             trace_id |-> trace_id]])

\* app_exception_handler: {"error": {message, type, details, trace_id}}
app_exception_handler(exc, trace_id) ==
    JSONResponse(exc.status_code,
                 [error |-> [message |-> exc.message, type |-> exc.type,
                             details |-> exc.details, trace_id |-> trace_id]])

\* validation_exception_handler
validation_exception_handler(trace_id) ==
    JSONResponse(422,
                 [error |-> [message |-> <<"Validation error">>,
                             type |-> "ValidationError",
                             details |-> <<"errors">>, trace_id |-> trace_id]])

\* a handler that puts the exception's own message in the body
general_exception_handler_Echo(exc, trace_id) ==
    JSONResponse(500,
                 [error |-> [message |-> exc.message,
                             type |-> "InternalServerError",
                             trace_id |-> trace_id]])

\* general_exception_handler
general_exception_handler(exc, trace_id) ==
    JSONResponse(500,
                 [error |-> [message |-> <<"Internal server error">>,
                             type |-> "InternalServerError",
                             trace_id |-> trace_id]])

\* the trace_id field of a response body
BodyTraceId(body) ==
    IF "error" \in DOMAIN body THEN body.error.trace_id ELSE body.trace_id

----------------------------------------------------------------------------
(* middleware/request_context.py *)

NoRequest == [method |-> "", path |-> "", x_trace_id |-> None]
NoLocal == [trace_id |-> None, start_time |-> <<>>, duration_ms |-> <<>>]
NoResponse == JSONResponse(0, [trace_id |-> None])

\* the trace id is always generated, the inbound header ignored
TraceIdFor_Generated(header, n) == generate_id(n)

\* request.headers.get("x-trace-id") or generate_id()
TraceIdFor(header, n) == IF Falsy(header) THEN generate_id(n) ELSE header

\* f"{duration_ms:.2f}"
Format2f(ms) == [whole |-> ms, frac |-> "00"]

\* response.headers[name] = value
SetHeader(headers, name, value) ==
    [h \in DOMAIN headers \cup {name} |-> IF h = name THEN value ELSE headers[h]]

\* dispatch, up to `await call_next(request)`: the trace id, set_trace_id,
\* the start time; call_next starts the rest of the application
Dispatch(t, req, header) ==
    /\ rpc[t] = "idle"
    /\ Falsy(header) => issued < MaxIds
    /\ issued' = IF Falsy(header) THEN issued + 1 ELSE issued
    /\ LET trace_id == TraceIdFor(header, issued + 1)
       IN  /\ trace_id_ctx' =
                 copy_context(set_trace_id(trace_id_ctx, <<t, "outer">>, trace_id), t)
           /\ local' = [local EXCEPT ![t] =
                 [trace_id |-> trace_id, start_time |-> <<clock>>, duration_ms |-> <<>>]]
    /\ request' = [request EXCEPT ![t] =
          [method |-> req.method, path |-> req.path, x_trace_id |-> header]]
    /\ rpc' = [rpc EXCEPT ![t] = "call_next"]
    /\ UNCHANGED <<response, exception, request_log, clock>>
    /\ UNCHANGED <<storage, pc, call, user, result>>

\* the application below the middleware handles the request, in the context
\* call_next gave it: the endpoint answers, or an exception handler installed
\* with app.exception_handler answers for it; any other exception is raised
\* through call_next into dispatch
Handler(t, outcome) ==
    /\ rpc[t] = "call_next"
    /\ LET trace_id == get_trace_id(trace_id_ctx, <<t, "inner">>)
           endpoint == Endpoint(request[t].method, request[t].path)
       IN  /\ outcome \in Outcomes(endpoint)
           /\ CASE outcome.kind = "ok" ->
                     /\ response' = [response EXCEPT ![t] =
                           JSONResponse(SuccessStatus(endpoint),
                                        SuccessBody(endpoint, trace_id))]
                     /\ rpc' = [rpc EXCEPT ![t] = "responded"]
                     /\ UNCHANGED exception
                [] outcome.kind = "AppException" ->
                     /\ response' = [response EXCEPT ![t] =
                           app_exception_handler(outcome.exc, trace_id)]
                     /\ rpc' = [rpc EXCEPT ![t] = "responded"]
                     /\ UNCHANGED exception
                [] outcome.kind = "RequestValidationError" ->
                     /\ response' = [response EXCEPT ![t] =
                           validation_exception_handler(trace_id)]
                     /\ rpc' = [rpc EXCEPT ![t] = "responded"]
                     /\ UNCHANGED exception
                [] OTHER ->
                     /\ exception' = [exception EXCEPT ![t] = outcome.exc]
                     /\ rpc' = [rpc EXCEPT ![t] = "raised"]
                     /\ UNCHANGED response
    /\ UNCHANGED <<trace_id_ctx, request, local, request_log, issued, clock>>
    /\ UNCHANGED <<storage, pc, call, user, result>>

\* dispatch, after call_next has returned a response: the duration, the two
\* headers, the log entry (its trace_id set by ContextFilter), the return
DispatchReturn(t) ==
    /\ rpc[t] = "responded"
    /\ LET duration_ms == (clock - local[t].start_time[1]) * 1000
       IN  /\ local' = [local EXCEPT ![t].duration_ms = <<duration_ms>>]
           /\ response' = [response EXCEPT ![t].headers =
                 SetHeader(SetHeader(@, "x-trace-id", local[t].trace_id),
                           "x-response-time-ms", Format2f(duration_ms))]
           /\ request_log' = [request_log EXCEPT ![t] = Append(@,
                 [method |-> request[t].method,
                  path |-> request[t].path,
                  status |-> response[t].status_code,
                  duration_ms |-> Format2f(duration_ms),
                  trace_id |-> get_trace_id(trace_id_ctx, <<t, "outer">>)])]
    /\ rpc' = [rpc EXCEPT ![t] = "done"]
    /\ UNCHANGED <<trace_id_ctx, request, exception, issued, clock>>
    /\ UNCHANGED <<storage, pc, call, user, result>>

\* a dispatch that catches what call_next raised and returns a response of
\* its own
DispatchRaise_Swallow(t) ==
    /\ rpc[t] = "raised"
    /\ response' = [response EXCEPT ![t] =
          [general_exception_handler(exception[t], local[t].trace_id)
              EXCEPT !.headers = SetHeader(@, "x-trace-id", local[t].trace_id)]]
    /\ exception' = [exception EXCEPT ![t] = NoException]
    /\ rpc' = [rpc EXCEPT ![t] = "done"]
    /\ UNCHANGED <<trace_id_ctx, request, local, request_log, issued, clock>>
    /\ UNCHANGED <<storage, pc, call, user, result>>

\* call_next has raised: dispatch has no handler for it, the exception leaves
\* dispatch and the handler registered for Exception answers outside the
\* middleware, in the request's own context
DispatchRaise(t) ==
    /\ rpc[t] = "raised"
    /\ response' = [response EXCEPT ![t] =
          general_exception_handler(exception[t],
                                    get_trace_id(trace_id_ctx, <<t, "outer">>))]
    /\ rpc' = [rpc EXCEPT ![t] = "errored"]
    /\ UNCHANGED <<trace_id_ctx, request, local, exception, request_log, issued, clock>>
    /\ UNCHANGED <<storage, pc, call, user, result>>

\* the response is sent; the execution context of t is free for the next
\* request, and the context of the task call_next started is gone
Finish(t) ==
    /\ rpc[t] \in {"done", "errored"}
    /\ rpc' = [rpc EXCEPT ![t] = "idle"]
    /\ request' = [request EXCEPT ![t] = NoRequest]
    /\ local' = [local EXCEPT ![t] = NoLocal]
    /\ response' = [response EXCEPT ![t] = NoResponse]
    /\ exception' = [exception EXCEPT ![t] = NoException]
    /\ request_log' = [request_log EXCEPT ![t] = <<>>]
    /\ trace_id_ctx' = [trace_id_ctx EXCEPT ![<<t, "inner">>] = Undefined]
    /\ UNCHANGED <<issued, clock>>
    /\ UNCHANGED <<storage, pc, call, user, result>>

----------------------------------------------------------------------------
Init ==
    /\ storage = <<>>
    /\ issued = 0
    /\ clock = 0
    /\ pc = [t \in Tasks |-> "idle"]
    /\ call = [t \in Tasks |-> NoCall]
    /\ user = [t \in Tasks |-> <<>>]
    /\ result = [t \in Tasks |-> NoResult]
    /\ trace_id_ctx = [c \in Contexts |-> Undefined]
    /\ rpc = [t \in Tasks |-> "idle"]
    /\ request = [t \in Tasks |-> NoRequest]
    /\ local = [t \in Tasks |-> NoLocal]
    /\ response = [t \in Tasks |-> NoResponse]
    /\ exception = [t \in Tasks |-> NoException]
    /\ request_log = [t \in Tasks |-> <<>>]

Next ==
    \/ \E t \in Tasks, name \in Names, email \in Emails : CreateScan(t, name, email)
    \/ \E t \in Tasks : CreateSave(t)
    \/ \E t \in Tasks, user_id \in UserIds : Get(t, user_id)
    \/ \E t \in Tasks : List(t)
    \/ \E t \in Tasks, user_id \in UserIds : DeleteFind(t, user_id)
    \/ \E t \in Tasks : DeletePop(t)
    \/ \E t \in Tasks : Return(t)

Spec == Init /\ [][Next]_vars

\* Two create calls, one per caller, whose emails differ only in letter case,
\* against the empty store: caller A passes "a@", caller B passes "A@".
NextTwoCreates ==
    \/ \E name \in Names \ {None} : CreateScan("A", name, <<"a", "@">>)
    \/ \E name \in Names \ {None} : CreateScan("B", name, <<"A", "@">>)
    \/ \E t \in Tasks : CreateSave(t)
    \/ Tick

SpecTwoCreates == Init /\ [][NextTwoCreates]_vars

\* The service called by one caller at a time: a call runs from its first
\* step to its return before another caller's call starts (what an event loop
\* does when no repository coroutine suspends).
Serial(t) == \A o \in Tasks \ {t} : pc[o] \in {"idle", "returned"}

NextSerial ==
    \/ \E t \in Tasks, name \in Names, email \in Emails :
          Serial(t) /\ CreateScan(t, name, email)
    \/ \E t \in Tasks : Serial(t) /\ CreateSave(t)
    \/ \E t \in Tasks, user_id \in UserIds : Serial(t) /\ Get(t, user_id)
    \/ \E t \in Tasks : Serial(t) /\ List(t)
    \/ \E t \in Tasks, user_id \in UserIds : Serial(t) /\ DeleteFind(t, user_id)
    \/ \E t \in Tasks : Serial(t) /\ DeletePop(t)
    \/ \E t \in Tasks : Return(t)

SpecSerial == Init /\ [][NextSerial]_vars

\* The request pipeline: requests A and B pass through the middleware
\* concurrently, and time passes.
NextPipeline ==
    \/ \E t \in Tasks, req \in Requests, header \in TraceHeaders :
          Dispatch(t, req, header)
    \/ \E t \in Tasks, outcome \in UNION {Outcomes(e) : e \in Endpoints} :
          Handler(t, outcome)
    \/ \E t \in Tasks : DispatchReturn(t)
    \/ \E t \in Tasks : DispatchRaise(t)
    \/ \E t \in Tasks : Finish(t)
    \/ Tick

SpecPipeline == Init /\ [][NextPipeline]_vars

\* The service called by one caller at a time, the host cancelling calls at
\* their awaits.
NextCancel ==
    \/ NextSerial
    \/ \E t \in Tasks, c \in CancellableCalls : Serial(t) /\ CancelFirstAwait(t, c)
    \/ \E t \in Tasks, ran \in BOOLEAN : Serial(t) /\ CancelSecondAwait(t, ran)

SpecCancel == Init /\ [][NextCancel]_vars

\* The domain errors on their own: every error the constructors build is
\* raised to a caller.
NextErrors ==
    \/ \E t \in Tasks, exc \in DomainErrorValues : Raise(t, exc)
    \/ \E t \in Tasks : Return(t)

SpecErrors == Init /\ [][NextErrors]_vars

----------------------------------------------------------------------------
(* Claims *)

\* the normalized form of an email: lower-cased and trimmed
Normalized(email) == Lower(Strip(email))

\* C1: in every reachable state no two entities in storage have the same
\* normalized (lower-cased, trimmed) email.
C1_UniqueNormalizedEmail ==
    \A i, j \in 1..Len(storage) :
        i # j => Normalized(storage[i].email) # Normalized(storage[j].email)

Active(t) == rpc[t] # "idle"
Completed(t) == rpc[t] \in {"done", "errored"}

\* C3: while requests A and B with different correlation ids are processed
\* concurrently, get_trace_id() on behalf of a request returns that request's
\* id in its own context and in the context of its handler, and every value
\* already read for it (response body, log entry) is its own id, never the
\* other's.
C3_TraceIdIsolated ==
    \A a, b \in Tasks :
        (a # b /\ Active(a) /\ Active(b) /\ local[a].trace_id # local[b].trace_id) =>
            /\ get_trace_id(trace_id_ctx, <<a, "outer">>) = local[a].trace_id
            /\ get_trace_id(trace_id_ctx, <<a, "inner">>) = local[a].trace_id
            /\ rpc[a] \in {"responded", "done", "errored"} =>
                  /\ BodyTraceId(response[a].body) = local[a].trace_id
                  /\ BodyTraceId(response[a].body) # local[b].trace_id
            /\ rpc[a] = "done" => request_log[a][1].trace_id = local[a].trace_id

\* C3 witness: A and B are in flight with different ids and both handlers
\* have answered.
C3_Witness ==
    /\ rpc["A"] = "responded" /\ rpc["B"] = "responded"
    /\ local["A"].trace_id # local["B"].trace_id
    /\ BodyTraceId(response["A"].body) = local["A"].trace_id

\* C4: every response carries an x-trace-id header with a non-empty value and
\* an x-response-time-ms header, whatever the outcome.
C4_EveryResponseHasHeaders ==
    \A t \in Tasks :
        Completed(t) =>
            /\ {"x-trace-id", "x-response-time-ms"} \subseteq DOMAIN response[t].headers
            /\ ~Falsy(response[t].headers["x-trace-id"])

\* C5: the correlation id of a request is the inbound x-trace-id header when
\* that is present and non-empty, and otherwise a generated id no other
\* request in flight has; the x-trace-id header of the response dispatch
\* returns is that id.
C5_TraceIdFromHeader ==
    \A t \in Tasks :
        Active(t) =>
            /\ IF ~Falsy(request[t].x_trace_id)
               THEN local[t].trace_id = request[t].x_trace_id
               ELSE /\ local[t].trace_id \in {generate_id(n) : n \in 1..issued}
                    /\ \A o \in Tasks \ {t} :
                          Active(o) => local[o].trace_id # local[t].trace_id
            /\ rpc[t] = "done" =>
                  /\ "x-trace-id" \in DOMAIN response[t].headers
                  /\ response[t].headers["x-trace-id"] = local[t].trace_id

\* C5 witness: one response returned by dispatch echoes the inbound "t1",
\* another, for a request with an empty header, carries a generated id.
C5_Witness ==
    \E a, b \in Tasks :
        /\ rpc[a] = "done" /\ request[a].x_trace_id = <<"t", "1">>
        /\ response[a].headers["x-trace-id"] = <<"t", "1">>
        /\ rpc[b] = "done" /\ request[b].x_trace_id = <<>>
        /\ response[b].headers["x-trace-id"] = generate_id(1)

\* C6: once a request's processing has completed, get_trace_id() in the
\* execution context that processed it no longer returns the request's id.
C6_TraceIdDiscarded ==
    \A t \in Tasks :
        Completed(t) =>
            get_trace_id(trace_id_ctx, <<t, "outer">>) # local[t].trace_id

\* C7: the start time is recorded before call_next is called, and the elapsed
\* duration is computed after call_next finishes, whether it returned a
\* response or raised.
C7_DurationOnBothPaths ==
    \A t \in Tasks :
        /\ Active(t) => local[t].start_time # <<>>
        /\ Completed(t) => local[t].duration_ms # <<>>

\* C8: the middleware emits exactly one request-log entry for a request, when
\* the request completes, carrying its method, path, resulting status,
\* duration and correlation id.
C8_OneLogEntry ==
    \A t \in Tasks :
        /\ ~Completed(t) => request_log[t] = <<>>
        /\ Completed(t) =>
              /\ Len(request_log[t]) = 1
              /\ request_log[t][1].method = request[t].method
              /\ request_log[t][1].path = request[t].path
              /\ request_log[t][1].status = response[t].status_code
              /\ request_log[t][1].duration_ms = Format2f(local[t].duration_ms[1])
              /\ request_log[t][1].trace_id = local[t].trace_id

\* C9: an accepted create returns an entity with a non-empty id whose email
\* is the lower-cased, trimmed form of the email passed, and a get of that id
\* immediately after the create returns the same entity.
C9_CreateThenGet ==
    [][ \A t \in Tasks :
          CreateSave(t) =>
              LET created == result'[t].value[1]
              IN  /\ result'[t].kind = "ok"
                  /\ Len(created.id) > 0
                  /\ created.email = Normalized(call[t].email)
                  /\ get(storage', created.id).kind = "ok"
                  /\ get(storage', created.id).value[1].id = created.id
                  /\ get(storage', created.id).value[1].email
                        = Normalized(call[t].email)
      ]_vars

\* C9 witness: a create called with the email " a@" has returned an entity
\* and a get of its id finds it.
C9_Witness ==
    \E t \in Tasks :
        /\ call[t].op = "create" /\ pc[t] = "returned" /\ result[t].kind = "ok"
        /\ call[t].email = <<" ", "a", "@">>
        /\ get(storage, result[t].value[1].id) = result[t]

\* a name that is empty or shorter than 2 characters after trimming
ShortName(name) == name # None /\ Len(Strip(name)) < 2

\* C10: a create whose name is empty or shorter than 2 characters after
\* trimming fails with ValidationError and stores nothing, for every email;
\* every stored entity has a trimmed name of at least 2 characters.
C10_ShortNameRejected ==
    /\ \A t \in Tasks :
          (call[t].op = "create" /\ ShortName(call[t].name)) =>
              /\ pc[t] = "returned"
              /\ result[t].kind = "ValidationError"
    /\ \A i \in 1..Len(storage) : Len(Strip(storage[i].name)) >= 2

\* C11: a create called while storage holds an entity whose email equals the
\* given email case-insensitively fails with ConflictError and leaves storage
\* unchanged; in particular a create repeated with the name and email of a
\* create that has just succeeded, its entity still stored, fails with
\* ConflictError.
C11_DuplicateCreateConflicts ==
    [][ \A t \in Tasks, name \in Names, email \in Emails :
          CreateScan(t, name, email) =>
              /\ (\E i \in 1..Len(storage) :
                      Lower(storage[i].email) = Lower(email)) =>
                    /\ result'[t].kind = "ConflictError"
                    /\ pc'[t] = "returned"
                    /\ storage' = storage
              /\ (\E o \in Tasks \ {t} :
                      /\ call[o].op = "create" /\ pc[o] = "returned"
                      /\ result[o].kind = "ok"
                      /\ find(storage, result[o].value[1].id) = result[o].value
                      /\ call[o].name = name /\ call[o].email = email) =>
                    /\ result'[t].kind = "ConflictError"
                    /\ storage' = storage
      ]_vars

\* C12: a create whose email is empty or does not contain "@" fails with
\* ValidationError, never with ConflictError, whatever storage holds, and
\* stores nothing.
C12_InvalidEmailRejected ==
    [][ \A t \in Tasks, name \in Names, email \in Emails :
          (CreateScan(t, name, email) /\ (email = <<>> \/ ~Contains(email, "@"))) =>
              /\ result'[t].kind = "ValidationError"
              /\ pc'[t] = "returned"
              /\ storage' = storage
              /\ user' = user
      ]_vars

\* C12 witness: with an entity stored, a create called with the email "a"
\* has failed with ValidationError.
C12_Witness ==
    \E t \in Tasks :
        /\ storage # <<>>
        /\ call[t].op = "create" /\ call[t].email = <<"a">>
        /\ pc[t] = "returned" /\ result[t].kind = "ValidationError"

\* an id no successful create has returned: one generate_id() never handed
\* out, or one handed to a create that has not saved its entity yet
NeverReturned(user_id) ==
    \/ user_id \notin {generate_id(n) : n \in 1..issued}
    \/ \E t \in Tasks : pc[t] = "create_save" /\ user[t][1].id = user_id

C14_DeleteTwice ==
    [][ \A t \in Tasks :
          /\ \A user_id \in UserIds :
                (Index(storage, user_id) # {} /\ DeleteFind(t, user_id)) =>
                    pc'[t] = "delete_pop"
          /\ DeletePop(t) =>
                /\ result'[t].kind = "ok"
                /\ Index(storage', call[t].user_id) = {}
                /\ Len(storage') = Len(storage) - 1
                /\ \A i \in 1..Len(storage) :
                      storage[i].id # call[t].user_id =>
                          \E j \in 1..Len(storage') : storage'[j] = storage[i]
          /\ \A o \in Tasks \ {t} :
                (/\ call[o].op = "delete" /\ pc[o] = "returned"
                 /\ result[o].kind = "ok"
                 /\ DeleteFind(t, call[o].user_id)) =>
                    /\ result'[t].kind = "NotFoundError"
                    /\ storage' = storage
      ]_vars

\* C14 witness: A's delete of the id u1 has succeeded, B's delete of u1 after
\* it has failed with NotFoundError, and another entity is still stored.
C14_Witness ==
    /\ call["A"].op = "delete" /\ call["A"].user_id = generate_id(1)
    /\ pc["A"] = "returned" /\ result["A"].kind = "ok"
    /\ call["B"].op = "delete" /\ call["B"].user_id = generate_id(1)
    /\ pc["B"] = "returned" /\ result["B"].kind = "NotFoundError"
    /\ Len(storage) = 1

\* C15: list returns exactly the stored entities, in the order in which
\* their creates succeeded: a create that succeeds puts its entity after all
\* stored ones, a delete keeps the others in their order, and get, list and
\* every call that fails leave storage as it is.
C15_ListInCreationOrder ==
    [][ \A t \in Tasks :
          /\ List(t) => (result'[t] = Returned(storage) /\ storage' = storage)
          /\ CreateSave(t) =>
                (result'[t].kind = "ok"
                   /\ storage' = Append(storage, result'[t].value[1]))
          /\ DeletePop(t) =>
                /\ \A j \in 1..Len(storage') :
                      \E i \in 1..Len(storage) : storage[i] = storage'[j]
                /\ \A j1, j2 \in 1..Len(storage') :
                      j1 < j2 =>
                          \E i1, i2 \in 1..Len(storage) :
                              /\ i1 < i2
                              /\ storage[i1] = storage'[j1]
                              /\ storage[i2] = storage'[j2]
          /\ (pc[t] = "idle" /\ pc'[t] = "returned") => storage' = storage
      ]_vars

\* C15 witness: two entities are stored, B's create has failed with
\* ConflictError, and A's list after that has returned the two entities,
\* the one created first in front.
C15_Witness ==
    /\ Len(storage) = 2
    /\ storage[1].id = generate_id(1) /\ storage[2].id = generate_id(2)
    /\ call["B"].op = "create" /\ result["B"].kind = "ConflictError"
    /\ call["A"].op = "list" /\ pc["A"] = "returned"
    /\ result["A"] = Returned(storage)

\* the error kinds of the domain taxonomy, by class name
DomainErrorKinds ==
    {"AppException", "NotFoundError", "ValidationError", "ConflictError",
     "UnauthorizedError", "ForbiddenError"}

\* C16: whatever the arguments (an absent name or email and empty strings
\* included), a call of create, get, list or delete returns normally or fails
\* with an error of the domain taxonomy; nothing else escapes the service.
C16_OnlyDomainErrorsEscape ==
    \A t \in Tasks :
        pc[t] = "returned" => result[t].kind \in {"ok"} \cup DomainErrorKinds

\* the status the taxonomy fixes for each kind of domain error
StatusOfKind(kind) ==
    CASE kind = "NotFoundError" -> 404
      [] kind = "ValidationError" -> 422
      [] kind = "ConflictError" -> 409
      [] kind = "UnauthorizedError" -> 401
      [] kind = "ForbiddenError" -> 403
      [] OTHER -> 500

\* C17: every domain error carries the status of its kind, whatever its
\* message, field and details: NotFoundError 404, ValidationError 422,
\* ConflictError 409, UnauthorizedError 401, ForbiddenError 403, the base 500.
C17_FixedStatusPerKind ==
    \A t \in Tasks :
        (pc[t] = "returned" /\ call[t].op = "raise") =>
            /\ result[t].kind \in DomainErrorKinds
            /\ result[t].value[1].status_code = StatusOfKind(result[t].kind)

\* C17 witness: a ConflictError with details and a ValidationError for a
\* field have been raised, and an error of each of the six kinds exists.
C17_Witness ==
    /\ result["A"].kind = "ConflictError" /\ pc["A"] = "returned"
    /\ result["A"].value[1].details # EmptyDict
    /\ result["A"].value[1].status_code = 409
    /\ result["B"].kind = "ValidationError" /\ pc["B"] = "returned"
    /\ Len(result["B"].value[1].message) = 4
    /\ {e.type : e \in DomainErrorValues} = DomainErrorKinds

\* the response the claim C18 expects for the domain error exc
TranslatedAsStated(r, exc, trace_id) ==
    /\ r.status_code = StatusOfKind(exc.type)
    /\ DOMAIN r.body = {"error"}
    /\ DOMAIN r.body.error = {"message", "type", "details", "trace_id"}
    /\ r.body.error.type = exc.type
    /\ r.body.error.message = exc.message
    /\ r.body.error.details = exc.details
    /\ r.body.error.trace_id = trace_id

\* C18: for every domain error raised while a request is handled, the
\* translator's response has the status mapped to the error's kind and the
\* body {error: {message, type, details, trace_id}}, type being the name of
\* the kind and trace_id the request's correlation id; dispatch returns that
\* status and body.
C18_DomainErrorTranslated ==
    [][ \A t \in Tasks :
          /\ \A outcome \in Outcomes(Endpoint(request[t].method, request[t].path)) :
                (outcome.kind = "AppException" /\ Handler(t, outcome)) =>
                    /\ rpc'[t] = "responded"
                    /\ TranslatedAsStated(response'[t], outcome.exc, local[t].trace_id)
                    /\ \A exc \in DomainErrorValues :
                          TranslatedAsStated(
                              app_exception_handler(
                                  exc, get_trace_id(trace_id_ctx, <<t, "inner">>)),
                              exc, local[t].trace_id)
          /\ DispatchReturn(t) =>
                /\ response'[t].status_code = response[t].status_code
                /\ response'[t].body = response[t].body
      ]_vars

\* C18 witness: GET /users/u1 with x-trace-id "t1" was answered 404 with type
\* "NotFoundError" and trace_id "t1", and dispatch has returned it.
C18_Witness ==
    \E t \in Tasks :
        /\ rpc[t] = "done"
        /\ request[t].path = "/users/u1" /\ request[t].x_trace_id = <<"t", "1">>
        /\ response[t].status_code = 404
        /\ "error" \in DOMAIN response[t].body
        /\ response[t].body.error.type = "NotFoundError"
        /\ response[t].body.error.trace_id = <<"t", "1">>

\* C19: the response to an unanticipated exception is status 500 with the
\* message "Internal server error", and two such responses for requests with
\* the same correlation id are identical, whatever the exceptions' types and
\* messages.
C19_InternalErrorOpaque ==
    \A a, b \in Tasks :
        (rpc[a] = "errored" /\ rpc[b] = "errored") =>
            /\ response[a].status_code = 500
            /\ response[a].body.error.message = <<"Internal server error">>
            /\ response[a].body.error.type # exception[a].type
            /\ local[a].trace_id = local[b].trace_id => response[a] = response[b]

\* C19 witness: two requests with the correlation id "t1" have failed with
\* different exceptions and both have been answered.
C19_Witness ==
    /\ rpc["A"] = "errored" /\ rpc["B"] = "errored"
    /\ local["A"].trace_id = <<"t", "1">> /\ local["B"].trace_id = <<"t", "1">>
    /\ exception["A"] # exception["B"]
    /\ response["A"].status_code = 500

\* C20: in every storage state a get or a delete called with the empty id
\* fails with ValidationError, whose status is 422, not with NotFoundError,
\* and leaves storage unchanged.
C20_EmptyIdInvalid ==
    [][ \A t \in Tasks :
          (Get(t, <<>>) \/ DeleteFind(t, <<>>)) =>
              /\ result'[t].kind = "ValidationError"
              /\ ValidationError("User ID is required", "user_id", None).status_code = 422
              /\ pc'[t] = "returned"
              /\ storage' = storage
      ]_vars

\* C20 witness: with an entity stored, a get and a delete of the empty id
\* have both failed with ValidationError.
C20_Witness ==
    /\ storage # <<>>
    /\ call["A"].op = "get" /\ call["A"].user_id = <<>>
    /\ pc["A"] = "returned" /\ result["A"].kind = "ValidationError"
    /\ call["B"].op = "delete" /\ call["B"].user_id = <<>>
    /\ pc["B"] = "returned" /\ result["B"].kind = "ValidationError"

Without(st, user_id) == SelectSeq(st, LAMBDA e : e.id # user_id)

\* C23: a create or delete cancelled at one of its awaits leaves storage as
\* it was before the call or as the completed call leaves it, and no step at
\* all takes storage to anything but the old storage plus one whole new
\* entity or the old storage minus the entries of one id.
C23_CancellationAtomic ==
    [][ /\ \A t \in Tasks :
              (result'[t].kind = "CancelledError" /\ result[t].kind # "CancelledError") =>
                  \/ storage' = storage
                  \/ /\ call[t].op = "create" /\ pc[t] = "create_save"
                     /\ storage' = Append(storage, user[t][1])
                     /\ user[t][1].email = Normalized(call[t].email)
                     /\ user[t][1].name = Strip(call[t].name)
                  \/ /\ call[t].op = "delete" /\ pc[t] = "delete_pop"
                     /\ storage' = Without(storage, call[t].user_id)
        /\ storage' # storage =>
              \E t \in Tasks :
                  \/ /\ pc[t] = "create_save"
                     /\ storage' = Append(storage, user[t][1])
                  \/ /\ pc[t] = "delete_pop"
                     /\ storage' = Without(storage, call[t].user_id)
      ]_vars

\* C23 witness: one create was cancelled at its save and its entity is not
\* stored; one delete was cancelled at its repo.delete and its entity is
\* still stored.
C23_Witness ==
    /\ call["A"].op = "create" /\ result["A"].kind = "CancelledError"
    /\ user["A"] # <<>> /\ Index(storage, user["A"][1].id) = {}
    /\ call["B"].op = "delete" /\ result["B"].kind = "CancelledError"
    /\ user["B"] # <<>> /\ find(storage, call["B"].user_id) = user["B"]

\* C24: the correlation id of a request is set before anything downstream of
\* dispatch runs for it: while the downstream chain runs, get_trace_id() in
\* its context is the request's id, no handler or exception handler has put
\* the default "undefined" in a body or a log entry, and the response carries
\* no header of dispatch until the chain has returned.
C24_TraceIdSetFirst ==
    \A t \in Tasks :
        /\ rpc[t] \in {"call_next", "responded", "raised"} =>
              /\ get_trace_id(trace_id_ctx, <<t, "inner">>) # Undefined
              /\ get_trace_id(trace_id_ctx, <<t, "inner">>) = local[t].trace_id
              /\ get_trace_id(trace_id_ctx, <<t, "outer">>) = local[t].trace_id
              /\ DOMAIN response[t].headers = {}
        /\ rpc[t] \in {"responded", "done", "errored"} =>
              BodyTraceId(response[t].body) # Undefined
        /\ rpc[t] = "done" =>
              /\ request_log[t][1].trace_id # Undefined
              /\ DOMAIN response[t].headers = {"x-trace-id", "x-response-time-ms"}

\* C24 witness: the handler of A, whose request had no x-trace-id header, has
\* answered with the generated id in the body while dispatch has not yet
\* attached its headers; B's unanticipated exception was answered with B's id.
C24_Witness ==
    /\ rpc["A"] = "responded" /\ request["A"].x_trace_id = None
    /\ BodyTraceId(response["A"].body) = local["A"].trace_id
    /\ local["A"].trace_id \in {generate_id(n) : n \in 1..issued}
    /\ DOMAIN response["A"].headers = {}
    /\ rpc["B"] = "errored"
    /\ BodyTraceId(response["B"].body) = local["B"].trace_id

\* C25: an error raised by call_next leaves dispatch as it is: dispatch
\* returns no response for that request, and the error that reaches the
\* caller of dispatch is the one the downstream chain raised.
C25_DispatchPropagates ==
    [][ \A t \in Tasks :
          /\ \A outcome \in Outcomes(Endpoint(request[t].method, request[t].path)) :
                (outcome.kind = "Exception" /\ Handler(t, outcome)) =>
                    (rpc'[t] = "raised" /\ exception'[t] = outcome.exc)
          /\ rpc[t] = "raised" =>
                /\ rpc'[t] \in {"raised", "errored"}
                /\ exception'[t] = exception[t]
                /\ exception[t] \in Exceptions
                /\ local'[t] = local[t]
                /\ request_log'[t] = request_log[t]
          /\ rpc[t] = "errored" => exception[t] \in Exceptions
      ]_vars

\* C25 witness: the RuntimeError raised below call_next for A has left
\* dispatch and reached the handler outside; dispatch wrote no log entry and
\* no header.
C25_Witness ==
    /\ rpc["A"] = "errored"
    /\ exception["A"] = [type |-> "RuntimeError", message |-> <<"boom">>]
    /\ response["A"].status_code = 500
    /\ request_log["A"] = <<>>
    /\ DOMAIN response["A"].headers = {}

\* C26: an entity created through the repository instance of one call and
\* not deleted since is returned by get and by list, and removed by delete,
\* through the instance built for any later call.
C26_StorageSharedAcrossInstances ==
    [][ \A t \in Tasks : \A o \in Tasks \ {t} :
          (/\ call[o].op = "create" /\ pc[o] = "returned" /\ result[o].kind = "ok"
           /\ Index(storage, result[o].value[1].id) # {}) =>
              LET e == result[o].value[1]
              IN  /\ Get(t, e.id) => result'[t] = Returned(<<e>>)
                  /\ List(t) =>
                        /\ result'[t].kind = "ok"
                        /\ \E i \in 1..Len(result'[t].value) : result'[t].value[i] = e
                  /\ DeleteFind(t, e.id) => pc'[t] = "delete_pop"
                  /\ (DeletePop(t) /\ call[t].user_id = e.id) =>
                        /\ Index(storage', e.id) = {}
                        /\ result'[t].kind = "ok"
      ]_vars

\* C26 witness: the entity A's create returned has been removed by B's
\* delete, which found it through its own instance.
C26_Witness ==
    /\ call["A"].op = "create" /\ pc["A"] = "returned" /\ result["A"].kind = "ok"
    /\ call["B"].op = "delete" /\ pc["B"] = "returned" /\ result["B"].kind = "ok"
    /\ call["B"].user_id = result["A"].value[1].id
    /\ Index(storage, call["B"].user_id) = {}

\* st2 is st with exactly the entry of user_id removed: every other entry is
\* kept, unchanged and in its place in the order
RemovedExactly(st, st2, user_id) ==
    /\ Len(st2) = Len(st) - 1
    /\ \A j \in 1..Len(st2) : st2[j].id # user_id
    /\ \E k \in 1..Len(st) :
          /\ st[k].id = user_id
          /\ \A i \in 1..Len(st2) : st2[i] = IF i < k THEN st[i] ELSE st[i + 1]

\* C27: the repository's delete called with an id that is not stored does
\* not raise and leaves storage as it is; called with a stored id it removes
\* exactly that entry and leaves every other entry unchanged.
C27_RepoDeleteFrame ==
    [][ \A t \in Tasks :
          DeletePop(t) =>
              /\ result'[t].kind = "ok"
              /\ IF \A i \in 1..Len(storage) : storage[i].id # call[t].user_id
                 THEN storage' = storage
                 ELSE RemovedExactly(storage, storage', call[t].user_id)
              /\ delete(storage, <<"z">>) = storage
      ]_vars

\* C27 witness: A and B have both run the repository's delete for the id u1,
\* the later of the two when u1 was no longer stored, and the entity u2 is
\* still stored.
C27_Witness ==
    /\ call["A"].op = "delete" /\ call["A"].user_id = generate_id(1)
    /\ pc["A"] = "returned" /\ result["A"].kind = "ok"
    /\ call["B"].op = "delete" /\ call["B"].user_id = generate_id(1)
    /\ pc["B"] = "returned" /\ result["B"].kind = "ok"
    /\ Len(storage) = 1 /\ storage[1].id = generate_id(2)

\* C28: a stored entity never changes: in every step, an id that is stored
\* before and after the step has the identical entity (id, name, email,
\* created_at) before and after, stored once; and the step that stores an
\* entity stores the one create built.
C28_EntityImmutable ==
    [][ /\ \A i \in 1..Len(storage) :
              (\E j \in 1..Len(storage') : storage'[j].id = storage[i].id) =>
                  /\ \E j \in 1..Len(storage') : storage'[j] = storage[i]
                  /\ Cardinality({j \in 1..Len(storage') :
                                     storage'[j].id = storage[i].id}) = 1
        /\ \A t \in Tasks :
              CreateSave(t) =>
                  /\ \E j \in 1..Len(storage') : storage'[j] = user[t][1]
                  /\ result'[t].value[1] = user[t][1]
      ]_vars

\* C28 witness: the entity u1, whose name is "Jo", is still stored as it was
\* created after a later create stored u2 with another name.
C28_Witness ==
    /\ Len(storage) = 2
    /\ storage[1] = UserEntity(generate_id(1), <<"J", "o">>, <<"a", "@">>, 0)
    /\ storage[2].id = generate_id(2) /\ storage[2].name = <<>>
    /\ \E t \in Tasks : call[t].op = "list" /\ result[t] = Returned(storage)

\* C29: with one call at a time, a call that ends in ValidationError,
\* ConflictError or NotFoundError, and every get and list, leaves storage as
\* it was; a create that succeeds adds exactly one entry, the one it returns,
\* and a delete that succeeds removes exactly one entry, all other entries
\* staying as they are; nothing else changes storage.
C29_FrameEffects ==
    [][ /\ \A t \in Tasks :
              /\ (result[t].kind = "none"
                    /\ result'[t].kind \in
                          {"ValidationError", "ConflictError", "NotFoundError"}) =>
                    storage' = storage
              /\ (call'[t].op \in {"get", "list"} /\ pc[t] = "idle") =>
                    storage' = storage
              /\ CreateSave(t) =>
                    /\ result'[t].kind = "ok"
                    /\ Len(storage') = Len(storage) + 1
                    /\ \A i \in 1..Len(storage) : storage'[i] = storage[i]
                    /\ storage'[Len(storage')] = result'[t].value[1]
              /\ DeletePop(t) =>
                    /\ result'[t].kind = "ok"
                    /\ RemovedExactly(storage, storage', call[t].user_id)
        /\ storage' # storage => \E t \in Tasks : CreateSave(t) \/ DeletePop(t)
      ]_vars

\* C29 witness: B's create has failed with ConflictError and A's delete of
\* u1 after it has succeeded; of the two entities stored before, exactly u2
\* is left.
C29_Witness ==
    /\ call["B"].op = "create" /\ pc["B"] = "returned"
    /\ result["B"].kind = "ConflictError"
    /\ call["A"].op = "delete" /\ call["A"].user_id = generate_id(1)
    /\ pc["A"] = "returned" /\ result["A"].kind = "ok"
    /\ Len(storage) = 1 /\ storage[1].id = generate_id(2)
    /\ storage[1].email = <<"b", "@">>

\* C30: in every response dispatch returns, of the user routes, of the
\* health route and of the exception handlers below it, the trace_id field
\* of the body equals the x-trace-id header of that response, also while
\* another request is in flight.
C30_BodyTraceIdIsHeader ==
    \A t \in Tasks :
        rpc[t] = "done" =>
            /\ "x-trace-id" \in DOMAIN response[t].headers
            /\ BodyTraceId(response[t].body) = response[t].headers["x-trace-id"]

\* C30 witness: dispatch has returned A's success body and B's error body,
\* the two requests in flight together with different ids, each body
\* carrying the id of its own header.
C30_Witness ==
    /\ rpc["A"] = "done" /\ rpc["B"] = "done"
    /\ "data" \in DOMAIN response["A"].body
    /\ "error" \in DOMAIN response["B"].body
    /\ response["A"].headers["x-trace-id"] # response["B"].headers["x-trace-id"]
    /\ BodyTraceId(response["A"].body) = response["A"].headers["x-trace-id"]
    /\ BodyTraceId(response["B"].body) = response["B"].headers["x-trace-id"]

====
